---- MODULE Spec2Model ----
(***************************************************************************)
(* The eve_memory_module reducers (entities, relations, knowledge base)    *)
(* over the host's tables.  A table is the set of its rows; the host's     *)
(* insert refuses a row that collides on a #[primarykey] or #[unique]      *)
(* column.  Timestamp::now() is the timestamp of the running reducer,      *)
(* read from the host clock, which never goes back.  The reducers of        *)
(* spacetime_module write the Resource table, whose #[autoinc] key the      *)
(* host draws from the table's sequence.                                    *)
(***************************************************************************)
EXTENDS Integers, FiniteSets, TLC

MaxEntities == 2
MaxNames == 2
MaxValues == 1
MaxClock == 1
MaxRelations == 1
MaxKnowledge == 1
MaxResources == 2
MaxIdentities == 2

VARIABLES entities, relations, knowledge, clock, last, resources, resource_seq

vars == <<entities, relations, knowledge, clock, last, resources, resource_seq>>

EntityIds == 1..MaxEntities
Names == 1..MaxNames
Values == 1..MaxValues
RelationIds == 1..MaxRelations
KnowledgeIds == 1..MaxKnowledge
Identities == 1..MaxIdentities

\* Option<String>: the empty set is None, a singleton is Some(v).
None == {}
Some(v) == {v}
OptionOf(S) == {None} \cup {Some(v) : v \in S}

\* ---- Entity table ----

\* EntityConflicts without the #[unique] attribute on name.
EntityConflicts_key_only(table, row) ==
    {r \in table : r.entity_id = row.entity_id}

\* #[primarykey] entity_id, #[unique] name: the rows an insert collides with.
EntityConflicts(table, row) ==
    {r \in table : r.entity_id = row.entity_id \/ r.name = row.name}

\* EveGlobalEntity_insert as an upsert: the colliding rows give way.
EveGlobalEntity_insert_upsert(table, row) ==
    (table \ {r \in table : r.entity_id = row.entity_id \/ r.name = row.name})
        \cup {row}

\* EveGlobalEntity_insert that looks for a collision on the primary key only.
EveGlobalEntity_insert_by_key(table, row) ==
    IF {r \in table : r.entity_id = row.entity_id} = {}
    THEN table \cup {row} ELSE table

\* EveGlobalEntity::insert: Err(duplicate) leaves the table alone.
EveGlobalEntity_insert(table, row) ==
    IF EntityConflicts(table, row) = {} THEN table \cup {row} ELSE table

\* EveGlobalEntity::filter_by_entity_id: the Option of the row, as a set.
filter_by_entity_id(entity_id) ==
    {r \in entities : r.entity_id = entity_id}

\* EveGlobalEntity::update_by_entity_id: delete the row under the key,
\* insert the new one.
update_by_entity_id(table, entity_id, row) ==
    EveGlobalEntity_insert({r \in table : r.entity_id # entity_id}, row)

\* NewEntity with updated_at left at the epoch.
NewEntity_epoch(entity_id, name, entity_type, data_json, embedding_json, now) ==
    [entity_id |-> entity_id, name |-> name, entity_type |-> entity_type,
     data_json |-> data_json, embedding_json |-> embedding_json,
     created_at |-> now, updated_at |-> 0]

\* NewEntity that stores data_json in the embedding_json column.
NewEntity_swapped(entity_id, name, entity_type, data_json, embedding_json, now) ==
    [entity_id |-> entity_id, name |-> name, entity_type |-> entity_type,
     data_json |-> data_json, embedding_json |-> data_json,
     created_at |-> now, updated_at |-> now]

\* The struct literal of create_entity.
NewEntity(entity_id, name, entity_type, data_json, embedding_json, now) ==
    [entity_id |-> entity_id, name |-> name, entity_type |-> entity_type,
     data_json |-> data_json, embedding_json |-> embedding_json,
     created_at |-> now, updated_at |-> now]

\* UpdatedEntity that assigns the arguments unconditionally, so that an
\* absent one clears its field.
UpdatedEntity_clears(entity, entity_type, data_json, embedding_json, now) ==
    [entity EXCEPT
        !.entity_type = entity_type,
        !.data_json = data_json,
        !.embedding_json = embedding_json,
        !.updated_at = now]

\* UpdatedEntity without the refresh of updated_at.
UpdatedEntity_keeps_time(entity, entity_type, data_json, embedding_json, now) ==
    [entity EXCEPT
        !.entity_type = IF entity_type # None THEN entity_type ELSE @,
        !.data_json = IF data_json # None THEN data_json ELSE @,
        !.embedding_json = IF embedding_json # None THEN embedding_json ELSE @]

\* UpdatedEntity that stamps created_at as well.
UpdatedEntity_restamps(entity, entity_type, data_json, embedding_json, now) ==
    [entity EXCEPT
        !.entity_type = IF entity_type # None THEN entity_type ELSE @,
        !.data_json = IF data_json # None THEN data_json ELSE @,
        !.embedding_json = IF embedding_json # None THEN embedding_json ELSE @,
        !.created_at = now,
        !.updated_at = now]

\* UpdatedEntity that assigns embedding_json unconditionally.
UpdatedEntity_resets_embedding(entity, entity_type, data_json, embedding_json, now) ==
    [entity EXCEPT
        !.entity_type = IF entity_type # None THEN entity_type ELSE @,
        !.data_json = IF data_json # None THEN data_json ELSE @,
        !.embedding_json = embedding_json,
        !.updated_at = now]

\* The clone of update_entity after its three `if let Some` and the
\* refresh of updated_at.
UpdatedEntity(entity, entity_type, data_json, embedding_json, now) ==
    [entity EXCEPT
        !.entity_type = IF entity_type # None THEN entity_type ELSE @,
        !.data_json = IF data_json # None THEN data_json ELSE @,
        !.embedding_json = IF embedding_json # None THEN embedding_json ELSE @,
        !.updated_at = now]

\* ---- Relation table ----

RelationConflicts(table, row) ==
    {r \in table : r.relation_id = row.relation_id}

\* EveGlobalRelation_insert as an upsert: the row under the key gives way.
EveGlobalRelation_insert_upsert(table, row) ==
    {r \in table : r.relation_id # row.relation_id} \cup {row}

EveGlobalRelation_insert(table, row) ==
    IF RelationConflicts(table, row) = {} THEN table \cup {row} ELSE table

\* EndpointMissing with && in place of ||.
EndpointMissing_both(source_entity_id, target_entity_id) ==
    /\ {r \in entities : r.entity_id = source_entity_id} = {}
    /\ {r \in entities : r.entity_id = target_entity_id} = {}

\* The guard of create_relation: true when the reducer returns early.
EndpointMissing(source_entity_id, target_entity_id) ==
    \/ filter_by_entity_id(source_entity_id) = {}
    \/ filter_by_entity_id(target_entity_id) = {}

NewRelation(relation_id, source_entity_id, target_entity_id, relation_type, now) ==
    [relation_id |-> relation_id, source_entity_id |-> source_entity_id,
     target_entity_id |-> target_entity_id, relation_type |-> relation_type,
     created_at |-> now]

\* ---- Knowledge base table ----

KnowledgeConflicts(table, row) ==
    {r \in table : r.knowledge_id = row.knowledge_id}

EveGlobalKnowledgeBase_insert(table, row) ==
    IF KnowledgeConflicts(table, row) = {} THEN table \cup {row} ELSE table

\* NewKnowledge with tags_json and source_identifier in each other's column.
NewKnowledge_swapped(knowledge_id, text_content, embedding_json, tags_json, source_identifier, now) ==
    [knowledge_id |-> knowledge_id, text_content |-> text_content,
     embedding_json |-> embedding_json, tags_json |-> source_identifier,
     source_identifier |-> tags_json, created_at |-> now]

NewKnowledge(knowledge_id, text_content, embedding_json, tags_json, source_identifier, now) ==
    [knowledge_id |-> knowledge_id, text_content |-> text_content,
     embedding_json |-> embedding_json, tags_json |-> tags_json,
     source_identifier |-> source_identifier, created_at |-> now]

\* ---- Resource table (spacetime_module) ----

\* ResourceAutoInc that stores the placeholder as given.
ResourceAutoInc_placeholder(row, seq) == row

\* #[autoinc] id: a row inserted with id 0 gets the next value of the
\* sequence of the table.
ResourceAutoInc(row, seq) ==
    IF row.id = 0 THEN [row EXCEPT !.id = seq + 1] ELSE row

\* #[primarykey] id.
ResourceConflicts(table, row) ==
    {r \in table : r.id = row.id}

\* Resource::insert: Err(duplicate) leaves the table alone.
Resource_insert(table, row) ==
    IF ResourceConflicts(table, row) = {} THEN table \cup {row} ELSE table

\* NewResource with the owner left at the zero identity.
NewResource_unowned(name, resource_type, timestamp, sender) ==
    [id |-> 0, name |-> name, resource_type |-> resource_type,
     ingested_at |-> timestamp, owner_id |-> 0]

\* The struct literal of create_resource and of create_dummy_resource.
NewResource(name, resource_type, timestamp, sender) ==
    [id |-> 0, name |-> name, resource_type |-> resource_type,
     ingested_at |-> timestamp, owner_id |-> sender]

\* ---- The invocation record ----
\* op and key: the reducer that ran last and its primary-key argument;
\* branch: the path it took (the Result its `let _ =` dropped, the arm of
\* its match, its early return); ret: what the caller got back.  Every
\* reducer of this module returns (), so the caller always sees "Ok".
Returned == "Ok"

Invocation(op, key, branch) ==
    [op |-> op, key |-> key, branch |-> branch, ret |-> Returned]

Init ==
    /\ entities = {}
    /\ relations = {}
    /\ knowledge = {}
    /\ clock = 0
    /\ last = Invocation("init", 0, "none")
    /\ resources = {}
    /\ resource_seq = 0

\* ---- Reducers ----

create_entity(entity_id, name, entity_type, data_json, embedding_json) ==
    LET now == clock
        entity == NewEntity(entity_id, name, entity_type, data_json,
                            embedding_json, now)
    IN  /\ entities' = EveGlobalEntity_insert(entities, entity)
        /\ last' = Invocation("create_entity", entity_id,
                      IF EntityConflicts(entities, entity) = {}
                      THEN "inserted" ELSE "duplicate")
        /\ UNCHANGED <<relations, knowledge, clock, resources, resource_seq>>

update_entity(entity_id, entity_type, data_json, embedding_json) ==
    LET found == filter_by_entity_id(entity_id)
    IN  IF found # {}
        THEN \E entity \in found :
               LET entity_clone == UpdatedEntity(entity, entity_type, data_json,
                                                 embedding_json, clock)
               IN  /\ entities' = update_by_entity_id(entities, entity_id,
                                                      entity_clone)
                   /\ last' = Invocation("update_entity", entity_id, "updated")
                   /\ UNCHANGED <<relations, knowledge, clock, resources, resource_seq>>
        ELSE /\ last' = Invocation("update_entity", entity_id, "missing")
             /\ UNCHANGED <<entities, relations, knowledge, clock, resources, resource_seq>>

create_relation(relation_id, source_entity_id, target_entity_id, relation_type) ==
    IF EndpointMissing(source_entity_id, target_entity_id)
    THEN /\ last' = Invocation("create_relation", relation_id, "dangling")
         /\ UNCHANGED <<entities, relations, knowledge, clock, resources, resource_seq>>
    ELSE LET relation == NewRelation(relation_id, source_entity_id,
                                     target_entity_id, relation_type, clock)
         IN  /\ relations' = EveGlobalRelation_insert(relations, relation)
             /\ last' = Invocation("create_relation", relation_id,
                           IF RelationConflicts(relations, relation) = {}
                           THEN "inserted" ELSE "duplicate")
             /\ UNCHANGED <<entities, knowledge, clock, resources, resource_seq>>

create_knowledge(knowledge_id, text_content, embedding_json, tags_json, source_identifier) ==
    LET item == NewKnowledge(knowledge_id, text_content, embedding_json,
                             tags_json, source_identifier, clock)
    IN  /\ knowledge' = EveGlobalKnowledgeBase_insert(knowledge, item)
        /\ last' = Invocation("create_knowledge", knowledge_id,
                      IF KnowledgeConflicts(knowledge, item) = {}
                      THEN "inserted" ELSE "duplicate")
        /\ UNCHANGED <<entities, relations, clock, resources, resource_seq>>

\* ---- Reducers of spacetime_module ----
\* sender is ctx.sender and timestamp the invocation timestamp, both given
\* by the host.  The `?` returns the Err of a refused insert to the caller.

InsertResource(op, sender, timestamp, name, resource_type) ==
    LET row == ResourceAutoInc(NewResource(name, resource_type, timestamp, sender),
                               resource_seq)
        ok == ResourceConflicts(resources, row) = {}
    IN  /\ resource_seq < MaxResources
        /\ resources' = Resource_insert(resources, row)
        /\ resource_seq' = resource_seq + 1
        /\ last' = [op |-> op, key |-> sender,
                    branch |-> IF ok THEN "inserted" ELSE "duplicate",
                    ret |-> IF ok THEN "Ok" ELSE "Err"]
        /\ UNCHANGED <<entities, relations, knowledge, clock>>

create_resource(sender, timestamp, name, resource_type) ==
    InsertResource("create_resource", sender, timestamp, name, resource_type)

create_dummy_resource(sender, timestamp, name, resource_type) ==
    InsertResource("create_dummy_resource", sender, timestamp, name, resource_type)

\* client_connected and client_disconnected only log the sender.
client_connected(sender) ==
    /\ last' = Invocation("client_connected", sender, "none")
    /\ UNCHANGED <<entities, relations, knowledge, clock, resources, resource_seq>>

client_disconnected(sender) ==
    /\ last' = Invocation("client_disconnected", sender, "none")
    /\ UNCHANGED <<entities, relations, knowledge, clock, resources, resource_seq>>

\* The host clock moves on between two invocations.
Tick ==
    /\ clock < MaxClock
    /\ clock' = clock + 1
    /\ UNCHANGED <<entities, relations, knowledge, last, resources, resource_seq>>

\* ---- Specifications ----

CreateRelation ==
    \E relation_id \in RelationIds, source_entity_id, target_entity_id \in EntityIds,
       relation_type \in Values :
        create_relation(relation_id, source_entity_id, target_entity_id,
                        relation_type)

\* The optional arguments of create_knowledge are stored as given; each is
\* drawn absent or present.
CreateKnowledge ==
    \E knowledge_id \in KnowledgeIds, text_content \in Values,
       embedding_json, tags_json, source_identifier \in OptionOf({1}) :
        create_knowledge(knowledge_id, text_content, embedding_json, tags_json,
                         source_identifier)

\* One name, hence one row at a time, under every entity_id and every value
\* of the optional arguments.
CreateEntityFields ==
    \E entity_id \in EntityIds,
       entity_type, data_json, embedding_json \in OptionOf(Values) :
        create_entity(entity_id, 1, entity_type, data_json, embedding_json)

UpdateEntityFields ==
    \E entity_id \in EntityIds,
       entity_type, data_json, embedding_json \in OptionOf(Values) :
        update_entity(entity_id, entity_type, data_json, embedding_json)

NextFields == CreateEntityFields \/ UpdateEntityFields \/ Tick

SpecFields == Init /\ [][NextFields]_vars

\* The entity reducers called with every optional argument absent: no
\* reducer reads entity_type, data_json or embedding_json, and SpecFields runs
\* them over all their values.
CreateEntityPlain ==
    \E entity_id \in EntityIds, name \in Names :
        create_entity(entity_id, name, None, None, None)

UpdateEntityPlain ==
    \E entity_id \in EntityIds :
        update_entity(entity_id, None, None, None)

NextEntity == CreateEntityPlain \/ UpdateEntityPlain \/ Tick

SpecEntity == Init /\ [][NextEntity]_vars

\* The whole module.
Next ==
    \/ CreateEntityPlain
    \/ UpdateEntityPlain
    \/ CreateRelation
    \/ CreateKnowledge
    \/ Tick

Spec == Init /\ [][Next]_vars

\* The reducers of spacetime_module.
CreateResource ==
    \E sender \in Identities, name, resource_type \in Values :
        create_resource(sender, clock, name, resource_type)

CreateDummyResource ==
    \E sender \in Identities, name, resource_type \in Values :
        create_dummy_resource(sender, clock, name, resource_type)

ClientConnected == \E sender \in Identities : client_connected(sender)

ClientDisconnected == \E sender \in Identities : client_disconnected(sender)

NextResource ==
    \/ CreateResource
    \/ CreateDummyResource
    \/ ClientConnected
    \/ ClientDisconnected
    \/ Tick

SpecResource == Init /\ [][NextResource]_vars

\* ---- Helpers of the properties ----

EntityKeys(table) == {e.entity_id : e \in table}
EntityNames(table) == {e.name : e \in table}
RelationKeys(table) == {r.relation_id : r \in table}
KnowledgeKeys(table) == {k.knowledge_id : k \in table}
TablesUnchanged == UNCHANGED <<entities, relations, knowledge>>

\* ---- C1 ----
\* C1: in every reachable state, both endpoints of every relation row are
\* primary keys of rows of the Entity table.
C1_RelationEndpointsExist ==
    \A r \in relations :
        /\ r.source_entity_id \in EntityKeys(entities)
        /\ r.target_entity_id \in EntityKeys(entities)

\* A relation between two different entities has been stored by the last call.
C1_Witness ==
    /\ last.op = "create_relation"
    /\ last.branch = "inserted"
    /\ \E r \in relations :
        /\ r.relation_id = last.key
        /\ r.source_entity_id # r.target_entity_id

\* ---- C2 ----
\* C2: a create_relation call whose source or target is not the key of an
\* existing entity fails with DanglingReference reported to the caller and
\* adds no row under its relation_id.
C2_DanglingReported ==
    [][\A relation_id \in RelationIds, source_entity_id, target_entity_id \in EntityIds,
          relation_type \in Values :
         ( /\ last'.op = "create_relation"
           /\ \/ source_entity_id \notin EntityKeys(entities)
              \/ target_entity_id \notin EntityKeys(entities)
           /\ create_relation(relation_id, source_entity_id, target_entity_id,
                              relation_type) )
         => /\ last'.ret = "DanglingReference"
            /\ {r \in relations' : r.relation_id = relation_id} \subseteq relations]_vars

\* ---- C3 ----
\* C3: in every reachable state no two rows of the Entity table share an
\* entity_id and no two rows share a name.
C3_EntityKeysUnique ==
    \A a, b \in entities :
        (a.entity_id = b.entity_id \/ a.name = b.name) => a = b

\* Two entities are stored and the last create_entity collided with one.
C3_Witness ==
    /\ Cardinality(entities) = 2
    /\ last.op = "create_entity"
    /\ last.branch = "duplicate"

\* ---- C4 ----
\* C4: when an entity named n exists, create_entity with name n and an unused
\* entity_id fails with DuplicateKey reported to the caller, and the table
\* keeps exactly the one original row named n.
C4_DuplicateNameReported ==
    [][last'.op = "create_entity" =>
         \A entity_id \in EntityIds, name \in Names,
            entity_type, data_json, embedding_json \in OptionOf(Values) :
             ( /\ name \in EntityNames(entities)
               /\ entity_id \notin EntityKeys(entities)
               /\ create_entity(entity_id, name, entity_type, data_json,
                                embedding_json) )
             => /\ last'.ret = "DuplicateKey"
                /\ {e \in entities' : e.name = name}
                     = {e \in entities : e.name = name}
                /\ Cardinality({e \in entities' : e.name = name}) = 1]_vars

\* ---- C5 ----
\* C5: a reducer call whose precondition fails (create_entity with a used
\* entity_id or name, update_entity on a missing entity_id, create_relation
\* with a missing endpoint or a used relation_id, create_knowledge with a used
\* knowledge_id) leaves the three tables exactly as they were: a step that
\* changes a table is no such call.
C5_FailedCallChangesNothing ==
    [][\/ TablesUnchanged
       \/ /\ \A entity_id \in EntityIds, name \in Names :
               ~ /\ \/ entity_id \in EntityKeys(entities)
                    \/ name \in EntityNames(entities)
                 /\ create_entity(entity_id, name, None, None, None)
          /\ \A entity_id \in EntityIds :
               ~ /\ entity_id \notin EntityKeys(entities)
                 /\ update_entity(entity_id, None, None, None)
          /\ \A relation_id \in RelationIds,
                source_entity_id, target_entity_id \in EntityIds,
                relation_type \in Values :
               ~ /\ \/ source_entity_id \notin EntityKeys(entities)
                    \/ target_entity_id \notin EntityKeys(entities)
                    \/ relation_id \in RelationKeys(relations)
                 /\ create_relation(relation_id, source_entity_id,
                                    target_entity_id, relation_type)
          /\ \A knowledge_id \in KnowledgeIds, text_content \in Values,
                embedding_json, tags_json, source_identifier \in OptionOf({1}) :
               ~ /\ knowledge_id \in KnowledgeKeys(knowledge)
                 /\ create_knowledge(knowledge_id, text_content, embedding_json,
                                     tags_json, source_identifier)]_vars

\* A create_entity call has just collided with a row written at an earlier
\* timestamp, while relations and knowledge items are stored.
C5_Witness ==
    /\ last.op = "create_entity"
    /\ last.branch = "duplicate"
    /\ \E e \in entities : e.entity_id = last.key /\ e.updated_at < clock
    /\ relations # {}
    /\ knowledge # {}

\* ---- C7 ----
\* C7: update_entity on an existing entity sets each of entity_type, data_json
\* and embedding_json to the argument when the argument is present and leaves
\* it as it was when the argument is absent.
C7_UpdateOverwritesPresentOnly ==
    [][last'.op = "update_entity" =>
         \A entity_id \in EntityIds, old \in entities,
            entity_type, data_json, embedding_json \in OptionOf(Values) :
             ( /\ entity_id = last'.key
               /\ old.entity_id = entity_id
               /\ update_entity(entity_id, entity_type, data_json,
                                embedding_json) )
             => \E new \in entities' :
                  /\ new.entity_id = entity_id
                  /\ new.entity_type =
                       IF entity_type = None THEN old.entity_type ELSE entity_type
                  /\ new.data_json =
                       IF data_json = None THEN old.data_json ELSE data_json
                  /\ new.embedding_json =
                       IF embedding_json = None THEN old.embedding_json
                       ELSE embedding_json]_vars

\* An update at a later timestamp has left entity_type and embedding_json
\* absent (their arguments were absent) on a row that carries data_json.
C7_Witness ==
    /\ last.op = "update_entity"
    /\ last.branch = "updated"
    /\ \E e \in entities :
        /\ e.entity_id = last.key
        /\ e.updated_at > e.created_at
        /\ e.data_json # None
        /\ e.entity_type = None
        /\ e.embedding_json = None

\* ---- C8 ----
\* C8 as stated: every update_entity call on an existing entity sets its
\* updated_at strictly above the updated_at the row had before the call.
C8_UpdatedAtStrictlyGrows ==
    [][last'.op = "update_entity" =>
         \A entity_id \in EntityIds, old \in entities,
            entity_type, data_json, embedding_json \in OptionOf(Values) :
             ( /\ entity_id = last'.key
               /\ old.entity_id = entity_id
               /\ update_entity(entity_id, entity_type, data_json,
                                embedding_json) )
             => \E new \in entities' :
                  /\ new.entity_id = entity_id
                  /\ new.updated_at > old.updated_at]_vars

\* C8 as amended: every update_entity call on an existing entity sets its
\* updated_at to the timestamp of the invocation, which is never below the
\* updated_at the row had before and is above it once the clock has moved.
C8_UpdatedAtIsInvocationTime ==
    [][last'.op = "update_entity" =>
         \A entity_id \in EntityIds, old \in entities,
            entity_type, data_json, embedding_json \in OptionOf(Values) :
             ( /\ entity_id = last'.key
               /\ old.entity_id = entity_id
               /\ update_entity(entity_id, entity_type, data_json,
                                embedding_json) )
             => \E new \in entities' :
                  /\ new.entity_id = entity_id
                  /\ new.updated_at = clock
                  /\ new.updated_at >= old.updated_at
                  /\ (old.updated_at < clock => new.updated_at > old.updated_at)]_vars

\* An update ran at a timestamp later than the creation of its row.
C8_Witness ==
    /\ last.op = "update_entity"
    /\ last.branch = "updated"
    /\ \E e \in entities :
        /\ e.entity_id = last.key
        /\ e.updated_at = clock
        /\ e.created_at < clock

\* ---- C9 ----
\* C9: in every reachable state every row of the Entity table has
\* updated_at >= created_at.
C9_UpdatedNotBeforeCreated ==
    \A e \in entities : e.updated_at >= e.created_at

\* A row created after the clock had moved, and updated since.
C9_Witness ==
    /\ last.op = "update_entity"
    /\ \E e \in entities : e.created_at > 0 /\ e.updated_at >= e.created_at

\* ---- C10 ----
\* C10: create_entity with an unused entity_id and an unused name leaves a row
\* under entity_id that carries the arguments, absent ones as absent, and has
\* created_at equal to updated_at.
C10_CreateStoresArguments ==
    [][last'.op = "create_entity" =>
         \A entity_id \in EntityIds, name \in Names,
            entity_type, data_json, embedding_json \in OptionOf(Values) :
             ( /\ entity_id = last'.key
               /\ entity_id \notin EntityKeys(entities)
               /\ name \notin EntityNames(entities)
               /\ create_entity(entity_id, name, entity_type, data_json,
                                embedding_json) )
             => \E row \in entities' :
                  /\ row.entity_id = entity_id
                  /\ row.name = name
                  /\ row.entity_type = entity_type
                  /\ row.data_json = data_json
                  /\ row.embedding_json = embedding_json
                  /\ row.created_at = row.updated_at]_vars

\* The last call stored a new row with a present and an absent field.
C10_Witness ==
    /\ last.op = "create_entity"
    /\ last.branch = "inserted"
    /\ \E e \in entities :
        /\ e.entity_id = last.key
        /\ e.created_at = clock
        /\ e.updated_at = clock
        /\ e.embedding_json # None
        /\ e.data_json = None

\* ---- C11 ----
\* C11: between two existing entities, create_relation with an unused
\* relation_id stores a row with the given source, target and type, and with
\* a used relation_id it fails with DuplicateKey and leaves the one row alone.
C11_SecondCallDuplicateKey ==
    [][last'.op = "create_relation" =>
         \A relation_id \in RelationIds,
            source_entity_id, target_entity_id \in EntityIds,
            relation_type \in Values :
             ( /\ relation_id = last'.key
               /\ source_entity_id \in EntityKeys(entities)
               /\ target_entity_id \in EntityKeys(entities)
               /\ create_relation(relation_id, source_entity_id,
                                  target_entity_id, relation_type) )
             => IF relation_id \notin RelationKeys(relations)
                THEN \E r \in relations' :
                       /\ r.relation_id = relation_id
                       /\ r.source_entity_id = source_entity_id
                       /\ r.target_entity_id = target_entity_id
                       /\ r.relation_type = relation_type
                ELSE /\ last'.ret = "DuplicateKey"
                     /\ relations' = relations]_vars

\* ---- C12 ----
\* C12: update_entity on an entity_id that is no key of the Entity table
\* reports NotFound, and no update_entity call changes the set of entity ids.
C12_MissingUpdateNotFound ==
    [][last'.op = "update_entity" =>
         \A entity_id \in EntityIds,
            entity_type, data_json, embedding_json \in OptionOf(Values) :
             ( /\ entity_id = last'.key
               /\ update_entity(entity_id, entity_type, data_json,
                                embedding_json) )
             => /\ EntityKeys(entities') = EntityKeys(entities)
                /\ entity_id \notin EntityKeys(entities)
                     => last'.ret = "NotFound"]_vars

\* ---- C13 ----
\* C13: a row of the Entity table keeps its entity_id, name and created_at
\* over every step: the next state has a row under the same entity_id with
\* the same name and created_at.
C13_IdentityColumnsFrozen ==
    [][\A e \in entities :
         \E f \in entities' :
            /\ f.entity_id = e.entity_id
            /\ f.name = e.name
            /\ f.created_at = e.created_at]_vars

\* An update at a later timestamp has rewritten a row while another row, whose
\* id and name a create_entity could reuse, is stored.
C13_Witness ==
    /\ last.op = "update_entity"
    /\ last.branch = "updated"
    /\ Cardinality(entities) = 2
    /\ \E e \in entities :
        /\ e.entity_id = last.key
        /\ e.created_at < e.updated_at
        /\ e.updated_at = clock

\* ---- C14 ----
\* C14: a row of the Relation table is in the table, unchanged, after every
\* step.
C14_RelationsAppendOnly ==
    [][relations \subseteq relations']_vars

\* A create_relation call has reused the relation_id of a row stored at an
\* earlier timestamp.
C14_Witness ==
    /\ last.op = "create_relation"
    /\ last.branch = "duplicate"
    /\ \E r \in relations : r.relation_id = last.key /\ r.created_at < clock

\* ---- C15 ----
\* C15: create_knowledge with an unused knowledge_id adds exactly one row,
\* which carries text_content, embedding_json, tags_json and
\* source_identifier as given, whatever the Entity and Relation tables hold;
\* it leaves those tables alone, and no step changes or removes a stored
\* KnowledgeItem row.
C15_CreateKnowledgeFrame ==
    [][/\ knowledge \subseteq knowledge'
       /\ last'.op = "create_knowledge" =>
            \A knowledge_id \in KnowledgeIds, text_content \in Values,
               embedding_json, tags_json, source_identifier \in OptionOf({1}) :
                ( /\ knowledge_id = last'.key
                  /\ knowledge_id \notin KnowledgeKeys(knowledge)
                  /\ create_knowledge(knowledge_id, text_content, embedding_json,
                                      tags_json, source_identifier) )
                => /\ \E k \in knowledge' :
                        /\ knowledge' = knowledge \cup {k}
                        /\ k \notin knowledge
                        /\ k.knowledge_id = knowledge_id
                        /\ k.text_content = text_content
                        /\ k.embedding_json = embedding_json
                        /\ k.tags_json = tags_json
                        /\ k.source_identifier = source_identifier
                   /\ UNCHANGED <<entities, relations>>]_vars

\* A knowledge item with tags but no source has just been stored while
\* entities and a relation are stored.
C15_Witness ==
    /\ last.op = "create_knowledge"
    /\ last.branch = "inserted"
    /\ entities # {}
    /\ relations # {}
    /\ \E k \in knowledge :
        /\ k.knowledge_id = last.key
        /\ k.tags_json # None
        /\ k.source_identifier = None

\* ---- C18 ----
\* C18: over every step, each of entity_type, data_json and embedding_json
\* that holds a value in a row of the Entity table holds a value in the row
\* under the same entity_id afterwards.
C18_FieldsNeverCleared ==
    [][\A e \in entities :
         \E f \in entities' :
            /\ f.entity_id = e.entity_id
            /\ e.entity_type # None => f.entity_type # None
            /\ e.data_json # None => f.data_json # None
            /\ e.embedding_json # None => f.embedding_json # None]_vars

\* An update at a later timestamp ran on a row that holds an entity_type and
\* a data_json and no embedding_json.
C18_Witness ==
    /\ last.op = "update_entity"
    /\ last.branch = "updated"
    /\ \E e \in entities :
        /\ e.entity_id = last.key
        /\ e.created_at < e.updated_at
        /\ e.entity_type # None
        /\ e.data_json # None
        /\ e.embedding_json = None

\* ---- C19 ----
\* C19: a name is in use exactly when a row of the Entity table carries it:
\* create_entity with an unused entity_id stores its row when no row carries
\* the name, and is rejected, the table unchanged, when one does; a rejected
\* call leaves no name behind.
C19_NameInUseIffStored ==
    [][last'.op = "create_entity" =>
         \A entity_id \in EntityIds, name \in Names :
             ( /\ entity_id = last'.key
               /\ entity_id \notin EntityKeys(entities)
               /\ create_entity(entity_id, name, None, None, None) )
             => /\ name \notin EntityNames(entities)
                     => \E e \in entities' :
                            e.entity_id = entity_id /\ e.name = name
                /\ name \in EntityNames(entities) => entities' = entities
                /\ EntityNames(entities') \subseteq EntityNames(entities) \cup {name}]_vars

\* A second row has just been stored under a fresh entity_id, next to a row
\* whose entity_id a rejected call could have reused.
C19_Witness ==
    /\ last.op = "create_entity"
    /\ last.branch = "inserted"
    /\ Cardinality(entities) = 2
    /\ \E e \in entities : e.entity_id = last.key /\ e.created_at = clock
    /\ \E e \in entities : e.entity_id # last.key /\ e.created_at < clock

\* ---- C16 ----
\* C16: every successful create_resource or create_dummy_resource call adds
\* exactly one Resource row; its id is drawn by the host, is not the
\* placeholder 0 and is the id of no row already stored, so the ids of the
\* stored rows stay pairwise distinct and each successful call counts one row.
C16_ResourceIdsFromHost ==
    [][(last'.op \in {"create_resource", "create_dummy_resource"}
        /\ last'.ret = "Ok") =>
         \A sender \in Identities, name, resource_type \in Values :
             ( /\ sender = last'.key
               /\ \/ create_resource(sender, clock, name, resource_type)
                  \/ create_dummy_resource(sender, clock, name, resource_type) )
             => /\ \E new \in resources' :
                     /\ new \notin resources
                     /\ resources' = resources \cup {new}
                     /\ new.id # 0
                     /\ new.id \notin {r.id : r \in resources}
                /\ Cardinality(resources') = Cardinality(resources) + 1
                /\ Cardinality({r.id : r \in resources'}) = Cardinality(resources')]_vars

\* Two stored rows agree on every column but the id.
C16_Witness ==
    /\ last.op \in {"create_resource", "create_dummy_resource"}
    /\ last.ret = "Ok"
    /\ \E a, b \in resources :
        /\ a.id # b.id
        /\ a.name = b.name
        /\ a.resource_type = b.resource_type
        /\ a.ingested_at = b.ingested_at
        /\ a.owner_id = b.owner_id

\* ---- C17 ----
\* C17: the row added by create_resource has the sender as owner_id, the
\* invocation timestamp as ingested_at and the arguments as name and
\* resource_type, and no step changes or removes a stored Resource row.
C17_ResourceOwnedBySender ==
    [][/\ resources \subseteq resources'
       /\ last'.op = "create_resource" =>
            \A sender \in Identities, name, resource_type \in Values :
                ( /\ sender = last'.key
                  /\ create_resource(sender, clock, name, resource_type) )
                => \E new \in resources' :
                     /\ new \notin resources
                     /\ new.owner_id = sender
                     /\ new.ingested_at = clock
                     /\ new.name = name
                     /\ new.resource_type = resource_type]_vars

\* create_resource has just stored a row for its sender, next to a row that
\* another sender stored at an earlier timestamp.
C17_Witness ==
    /\ last.op = "create_resource"
    /\ \E r \in resources :
        /\ r.id = resource_seq
        /\ r.owner_id = last.key
        /\ r.ingested_at = clock
    /\ \E r \in resources :
        /\ r.id < resource_seq
        /\ r.owner_id # last.key
        /\ r.ingested_at < clock

====
